---- MODULE Spec2Model ----
(***************************************************************************)
(* Model of the syntax-tree query layer (TreeUtils) and of the reparse     *)
(* handler (ASTProvider.handleChangeTextDocument) of the Elm language      *)
(* server.                                                                 *)
(*                                                                         *)
(* Strings that the code compares, slices or prefix-tests are sequences of *)
(* one-character strings, so that  ===, startsWith, substring and split    *)
(* are computed and not assumed.  A syntax node is a record; a node of a   *)
(* tree is addressed by its path from the root (the 1-based child indexes),*)
(* so the JavaScript children[k] is kids[k+1].                             *)
(***************************************************************************)
EXTENDS Integers, Sequences, FiniteSets, TLC

VARIABLES
  forest,    \* Forest.treeMap: the set of tree containers
  imports,   \* Imports: the per-file import/exposing tables
  storage,   \* the file system, per uri
  task,      \* the invocations (promises) of handlers and scans
  running,   \* the task that holds the JavaScript thread, 0 when it is free
  source,    \* query specifications: the text that was parsed
  tree,      \* query specifications: the root node of the parsed tree
  query,     \* query specifications: the last TreeUtils call and its arguments
  result,    \* query specifications: what that call returned
  lastIndex, \* functionNameRegex.lastIndex, the state of the module's one RegExp
  calls,     \* query specifications: the calls made so far and what they returned
  batch      \* testAll: its position, the projects logged, their outcomes, failed

vars == <<forest, imports, storage, task, running, source, tree, query, result,
          lastIndex, calls, batch>>
handlerVars == <<forest, imports, storage, task, running, batch>>
queryVars == <<source, tree, query, result, lastIndex, calls>>

----------------------------------------------------------------------------
(* Bounds *)

MaxExposed == 2    \* entries of an explicit exposing list
MaxImports == 2    \* import clauses of a file
MaxLen == 4        \* characters of a document (getNamedDescendantForPosition)
NumUris == 2       \* file identities
MaxChanges == 2    \* content changes carried by one notification
NumTasks == 2      \* handler/scan invocations that may exist at once
MaxNodes == 5      \* nodes of a tree that nextNode walks
MaxRefs == 2       \* definition nodes referenced by one record field
MaxCalls == 3      \* queries made one after another on one unchanged tree
NumProjects == 3   \* projects in the list testAll goes through
MaxTypes == 3      \* types joined by arrows in one type annotation
MaxParams == 2     \* parameters of one function declaration
MaxDepth == 8      \* depth of the node getTypeAliasOfRecordField starts at
MaxDecls == 2      \* top-level declarations of a file searched by findFunction
MaxItems == 3      \* top-level items (annotations, comments, declarations) of a file

----------------------------------------------------------------------------
(* Generic helpers *)

Min(S) == CHOOSE x \in S : \A y \in S : x <= y

RECURSIVE Flatten(_)
Flatten(ss) == IF ss = <<>> THEN <<>> ELSE Head(ss) \o Flatten(Tail(ss))

SeqsUpTo(S, n) == UNION {[1..k -> S] : k \in 0..n}

\* String.prototype.startsWith
startsWith(s, prefix) ==
  /\ Len(prefix) <= Len(s)
  /\ SubSeq(s, 1, Len(prefix)) = prefix

----------------------------------------------------------------------------
(* Syntax nodes, as web-tree-sitter hands them to TreeUtils *)

Leaf(type, named, text) ==
  [type |-> type, named |-> named, field |-> "", text |-> text, kids |-> <<>>]

Inner(type, kids) ==
  [type |-> type, named |-> TRUE, field |-> "", text |-> <<>>, kids |-> kids]

Field(name, node) == [node EXCEPT !.field = name]

\* "no node": undefined / null of the JavaScript API, as a path
NoNode == <<-1>>

RECURSIVE NodeAt(_, _)
NodeAt(root, p) ==
  IF p = <<>> THEN root ELSE NodeAt(root.kids[Head(p)], Tail(p))

\* SyntaxNode.text: the source text the node spans
RECURSIVE Text(_)
Text(node) ==
  IF node.kids = <<>> THEN node.text
  ELSE Flatten([i \in 1..Len(node.kids) |-> Text(node.kids[i])])

\* SyntaxNode.children
children(root, p) == [i \in 1..Len(NodeAt(root, p).kids) |-> Append(p, i)]

\* SyntaxNode.childForFieldName
childForFieldName(root, p, name) ==
  LET hits == {i \in 1..Len(NodeAt(root, p).kids) :
                 NodeAt(root, p).kids[i].field = name}
  IN IF hits = {} THEN NoNode ELSE Append(p, Min(hits))

\* SyntaxNode.lastNamedChild
lastNamedChild(root, p) ==
  LET hits == {i \in 1..Len(NodeAt(root, p).kids) : NodeAt(root, p).kids[i].named}
  IN IF hits = {} THEN NoNode ELSE Append(p, CHOOSE i \in hits : \A j \in hits : j <= i)

\* SyntaxNode.descendantsOfType: the matching nodes of the subtree, in pre-order
RECURSIVE descendantsOfType(_, _, _)
descendantsOfType(root, p, type) ==
  (IF NodeAt(root, p).type = type THEN <<p>> ELSE <<>>)
  \o Flatten([i \in 1..Len(NodeAt(root, p).kids) |->
                descendantsOfType(root, Append(p, i), type)])

----------------------------------------------------------------------------
(* The parser: tree-sitter-elm's tree for the header of a module.          *)
(* A text is given by what it declares:                                    *)
(*   hasModule  whether it starts with a module declaration                *)
(*   exposing   all for  exposing (..) , else the listed entries           *)
(*   imports    the import clauses, in file order                          *)

ModuleName == <<"M">>

Wildcard == [all |-> TRUE, items |-> <<>>]
Explicit(items) == [all |-> FALSE, items |-> items]

UpperQid(segments) ==
  Inner("upper_case_qid",
        [i \in 1..(2 * Len(segments) - 1) |->
           IF i % 2 = 1 THEN Leaf("upper_case_identifier", TRUE, segments[(i + 1) \div 2])
           ELSE Leaf("dot", TRUE, <<".">>)])

ExposedItemNode(item) ==
  IF item.kind = "value"
  THEN Inner("exposed_value", <<Leaf("lower_case_identifier", TRUE, item.name)>>)
  ELSE Inner("exposed_type",
             <<Leaf("upper_case_identifier", TRUE, item.name)>>
             \o (IF item.ctors
                 THEN <<Inner("exposed_union_constructors",
                              <<Leaf("(", FALSE, <<"(">>),
                                Leaf("double_dot", TRUE, <<".", ".">>),
                                Leaf(")", FALSE, <<")">>)>>)>>
                 ELSE <<>>))

ExposingListNode(exposing) ==
  Inner("exposing_list",
        <<Leaf("exposing", TRUE, <<"e","x","p","o","s","i","n","g">>),
          Leaf("(", FALSE, <<"(">>)>>
        \o (IF exposing.all
            THEN <<Leaf("double_dot", TRUE, <<".", ".">>)>>
            ELSE [i \in 1..(2 * Len(exposing.items) - 1) |->
                    IF i % 2 = 1 THEN ExposedItemNode(exposing.items[(i + 1) \div 2])
                    ELSE Leaf(",", FALSE, <<",">>)])
        \o <<Leaf(")", FALSE, <<")">>)>>)

ModuleDeclarationNode(exposing) ==
  Field("moduleDeclaration",
        Inner("module_declaration",
              <<Leaf("module", TRUE, <<"m","o","d","u","l","e">>),
                Field("name", UpperQid(<<ModuleName>>)),
                Field("exposing", ExposingListNode(exposing))>>))

ImportClauseNode(imp) ==
  Inner("import_clause",
        <<Leaf("import", TRUE, <<"i","m","p","o","r","t">>),
          Field("moduleName", UpperQid(imp.module))>>
        \o (IF imp.alias # <<>>
            THEN <<Field("asClause",
                         Inner("as_clause",
                               <<Leaf("as", TRUE, <<"a","s">>),
                                 Field("name",
                                       Leaf("upper_case_identifier", TRUE, imp.alias))>>))>>
            ELSE <<>>)
        \o (IF imp.exposesAll
            THEN <<Field("exposing", ExposingListNode(Wildcard))>>
            ELSE <<>>))

\* Parser.parse
Parse(text) ==
  Inner("file",
        (IF text.hasModule THEN <<ModuleDeclarationNode(text.exposing)>> ELSE <<>>)
        \o [i \in 1..Len(text.imports) |-> ImportClauseNode(text.imports[i])])

----------------------------------------------------------------------------
(* TreeUtils: module structure *)

findModuleDeclaration(root) == childForFieldName(root, <<>>, "moduleDeclaration")

findFirstNamedChildOfType(root, type, p) ==
  LET ks == children(root, p)
      hits == {i \in 1..Len(ks) : NodeAt(root, ks[i]).type = type}
  IN IF hits = {} THEN NoNode ELSE ks[Min(hits)]

\* the wildcard test both exposing checks start with
hasDoubleDot(root, module) ==
  LET exposingList == findFirstNamedChildOfType(root, "exposing_list", module)
  IN /\ exposingList # NoNode
     /\ findFirstNamedChildOfType(root, "double_dot", exposingList) # NoNode

\* the same checks without the wildcard short-circuit
isExposedFunctionNoWildcard(root, functionName) ==
  LET module == findModuleDeclaration(root)
  IN /\ module # NoNode
     /\ LET descendants == descendantsOfType(root, module, "exposed_value")
        IN \E i \in 1..Len(descendants) :
             Text(NodeAt(root, descendants[i])) = functionName

isExposedFunction(root, functionName) ==
  LET module == findModuleDeclaration(root)
  IN IF module # NoNode
     THEN IF hasDoubleDot(root, module)
          THEN TRUE
          ELSE LET descendants == descendantsOfType(root, module, "exposed_value")
               IN \E i \in 1..Len(descendants) :
                    Text(NodeAt(root, descendants[i])) = functionName
     ELSE FALSE

isExposedTypeOrTypeAlias(root, typeName) ==
  LET module == findModuleDeclaration(root)
  IN IF module # NoNode
     THEN IF hasDoubleDot(root, module)
          THEN TRUE
          ELSE LET descendants == descendantsOfType(root, module, "exposed_type")
               IN \E i \in 1..Len(descendants) :
                    startsWith(Text(NodeAt(root, descendants[i])), typeName)
     ELSE FALSE

findAllImportClauseNodes(root) ==
  LET ks == children(root, <<>>)
  IN SelectSeq(ks, LAMBDA p : NodeAt(root, p).type = "import_clause")

\* the predicate of findImportNameNode's find()
importMatches(root, a, moduleName) ==
  LET ks == children(root, a)
  IN \/ /\ Len(ks) > 1
        /\ NodeAt(root, ks[2]).type = "upper_case_qid"
        /\ Text(NodeAt(root, ks[2])) = moduleName
     \/ /\ Len(ks) > 2
        /\ NodeAt(root, ks[3]).type = "as_clause"
        /\ lastNamedChild(root, ks[3]) # NoNode
        /\ Text(NodeAt(root, lastNamedChild(root, ks[3]))) = moduleName

findImportNameNode(root, moduleName) ==
  LET allImports == findAllImportClauseNodes(root)
      hits == {i \in 1..Len(allImports) : importMatches(root, allImports[i], moduleName)}
  IN IF hits = {} THEN NoNode ELSE children(root, allImports[Min(hits)])[2]

----------------------------------------------------------------------------
(* TreeUtils: position to node *)

\* functionNameRegex = new RegExp("[a-zA-Z0-9_]+"): the character class
IdentifierChars ==
  {"a","b","c","d","e","f","g","h","i","j","k","l","m",
   "n","o","p","q","r","s","t","u","v","w","x","y","z",
   "A","B","C","D","E","F","G","H","I","J","K","L","M",
   "N","O","P","Q","R","S","T","U","V","W","X","Y","Z",
   "0","1","2","3","4","5","6","7","8","9","_"}

\* the flags of a RegExp made with the global flag
functionNameRegexFlagsGlobal == {"g"}

\* new RegExp("[a-zA-Z0-9_]+"): no flags argument
functionNameRegexFlags == {}

\* RegExp.prototype.test of the unanchored pattern: whether s has a match and
\* the lastIndex the call leaves.  Without the global flag lastIndex is neither
\* read nor written; with it the search starts at lastIndex, which becomes the
\* end of the match, or 0 when there is none.
RegExpTest(flags, from, s) ==
  IF "g" \in flags
  THEN LET hits == {i \in (from + 1)..Len(s) : s[i] \in IdentifierChars}
       IN IF hits = {} THEN [found |-> FALSE, lastIndex |-> 0]
          ELSE [found |-> TRUE,
                lastIndex |-> Min({j \in Min(hits)..Len(s) :
                                     j = Len(s) \/ s[j + 1] \notin IdentifierChars})]
  ELSE [found |-> \E i \in 1..Len(s) : s[i] \in IdentifierChars, lastIndex |-> from]

\* functionNameRegex.test(s), on the RegExp object as it is now
functionNameRegexTest(s) == RegExpTest(functionNameRegexFlags, lastIndex, s).found

\* String.prototype.split("\n")
RECURSIVE splitLines(_)
splitLines(s) ==
  IF \A i \in 1..Len(s) : s[i] # "\n" THEN <<s>>
  ELSE LET k == Min({i \in 1..Len(s) : s[i] = "\n"})
       IN <<SubSeq(s, 1, k - 1)>> \o splitLines(SubSeq(s, k + 1, Len(s)))

\* String.prototype.substring(from, to) for 0 <= from <= to
substring(s, from, to) ==
  SubSeq(s, (IF from > Len(s) THEN Len(s) ELSE from) + 1,
            IF to > Len(s) THEN Len(s) ELSE to)

\* what is asked of SyntaxNode.namedDescendantForPosition(start, end = start)
Lookup(row, startColumn, endColumn) ==
  [kind |-> "lookup", row |-> row, startColumn |-> startColumn, endColumn |-> endColumn]

\* undefined.substring(...): the call throws
TypeError == [kind |-> "TypeError", row |-> 0, startColumn |-> 0, endColumn |-> 0]

\* the same function, testing the character at the cursor instead of the one before it
getNamedDescendantForPositionAtCursor(text, line, character) ==
  LET lines == splitLines(text)
  IN IF line >= Len(lines) THEN TypeError
     ELSE IF ~functionNameRegexTest(substring(lines[line + 1], character, character + 1))
          THEN Lookup(line, character, character)
          ELSE Lookup(line, IF character = 0 THEN 0 ELSE character - 1, character)

getNamedDescendantForPosition(text, line, character) ==
  LET previousCharColumn == IF character = 0 THEN 0 ELSE character - 1
      lines == splitLines(text)
  IN IF line >= Len(lines) THEN TypeError
     ELSE LET charBeforeCursor ==
                substring(lines[line + 1], previousCharColumn, character)
          IN IF ~functionNameRegexTest(charBeforeCursor)
             THEN Lookup(line, character, character)
             ELSE Lookup(line, previousCharColumn, character)

\* functionNameRegex.lastIndex when getNamedDescendantForPosition has returned
\* or thrown
lastIndexAfterTest(text, line, character) ==
  LET lines == splitLines(text)
  IN IF line >= Len(lines) THEN lastIndex
     ELSE RegExpTest(functionNameRegexFlags, lastIndex,
                     substring(lines[line + 1],
                               IF character = 0 THEN 0 ELSE character - 1,
                               character)).lastIndex

----------------------------------------------------------------------------
(* The values the variables of one part hold while another part runs *)

NoQuery == [op |-> "none"]
NoText == [hasModule |-> FALSE, exposing |-> Wildcard, imports |-> <<>>]

RegexIdle ==
  /\ lastIndex = 0
  /\ calls = <<>>

QueryIdle ==
  /\ RegexIdle
  /\ source = NoText
  /\ tree = Parse(NoText)
  /\ query = NoQuery
  /\ result = FALSE

\* testAll has not been called
BatchIdle == [pc |-> "idle", i |-> 0, logged |-> <<>>, outcomes |-> <<>>, failed |-> <<>>]

HandlerIdle ==
  /\ batch = BatchIdle
  /\ forest = {}
  /\ imports = {}
  /\ storage = <<>>
  /\ task = <<>>
  /\ running = 0

----------------------------------------------------------------------------
(* Specification SpecExposing: the exposing checks on every module header  *)
(* with a wildcard or with up to MaxExposed listed entries                 *)

foo == <<"f","o","o">>
fo  == <<"f","o">>
baz == <<"b","a","z">>
Bar == <<"B","a","r">>
Ba  == <<"B","a">>
Baz == <<"B","a","z">>

ListedValueNames == {foo, fo}
ListedTypeNames == {Bar, Ba}
AskedNames == {foo, fo, baz, Bar, Ba, Baz}

ExposedItems ==
  [kind : {"value"}, name : ListedValueNames, ctors : {FALSE}]
  \cup [kind : {"type"}, name : ListedTypeNames, ctors : BOOLEAN]

ExposingTexts ==
  {[hasModule |-> TRUE, exposing |-> e, imports |-> <<>>] :
     e \in {Wildcard} \cup {Explicit(items) : items \in SeqsUpTo(ExposedItems, MaxExposed) \ {<<>>}}}
  \cup {NoText}

InitExposing ==
  /\ HandlerIdle
  /\ RegexIdle
  /\ source \in ExposingTexts
  /\ tree = Parse(source)
  /\ query = NoQuery
  /\ result = FALSE

CallIsExposedFunction(name) ==
  /\ query' = [op |-> "isExposedFunction", name |-> name]
  /\ result' = isExposedFunction(tree, name)
  /\ UNCHANGED <<source, tree, handlerVars, lastIndex>>

CallIsExposedTypeOrTypeAlias(name) ==
  /\ query' = [op |-> "isExposedTypeOrTypeAlias", name |-> name]
  /\ result' = isExposedTypeOrTypeAlias(tree, name)
  /\ UNCHANGED <<source, tree, handlerVars, lastIndex>>

NextExposing ==
  /\ \E name \in AskedNames :
       \/ CallIsExposedFunction(name)
       \/ CallIsExposedTypeOrTypeAlias(name)
  /\ UNCHANGED calls

SpecExposing == InitExposing /\ [][NextExposing]_vars

\* what the text itself lists, read off the text and not off the tree
ListedValues(text) ==
  {text.exposing.items[i].name :
     i \in {j \in 1..Len(text.exposing.items) : text.exposing.items[j].kind = "value"}}
ListedTypes(text) ==
  {text.exposing.items[i].name :
     i \in {j \in 1..Len(text.exposing.items) : text.exposing.items[j].kind = "type"}}

\* C6: under  module M exposing (..)  isExposedFunction and
\* isExposedTypeOrTypeAlias answer true for every name asked, listed or not.
C6_WildcardExposesEveryName ==
  (/\ query.op \in {"isExposedFunction", "isExposedTypeOrTypeAlias"}
   /\ source.hasModule
   /\ source.exposing.all)
  => result = TRUE

\* C6 witness: a wildcard module was asked about a name and answered true
C6_Witness ==
  /\ query.op = "isExposedTypeOrTypeAlias"
  /\ source.hasModule
  /\ source.exposing.all
  /\ query.name = Baz
  /\ result = TRUE

\* C7: under an explicit exposing list isExposedFunction(n) is true exactly for
\* the listed value names, and isExposedTypeOrTypeAlias(n) is true exactly for
\* the listed type names.
C7_ExplicitListExact ==
  (source.hasModule /\ ~source.exposing.all)
  => /\ query.op = "isExposedFunction"
          => (result <=> query.name \in ListedValues(source))
     /\ query.op = "isExposedTypeOrTypeAlias"
          => (result <=> query.name \in ListedTypes(source))

----------------------------------------------------------------------------
(* Specification SpecImports: findImportNameNode on every file with up to  *)
(* MaxImports import clauses                                               *)

\* the text of a dotted module name
RECURSIVE QidText(_)
QidText(segments) ==
  IF Len(segments) = 1 THEN segments[1]
  ELSE segments[1] \o <<".">> \o QidText(Tail(segments))

ImportedModules == {<< <<"A">>, <<"B">> >>, << <<"C">> >>, << <<"X">> >>}
Aliases == {<<>>, <<"C">>, <<"D">>}
ImportItems == [module : ImportedModules, alias : Aliases, exposesAll : BOOLEAN]
LookedUpNames == {QidText(m) : m \in ImportedModules} \cup (Aliases \ {<<>>})

ImportTexts ==
  {[hasModule |-> TRUE, exposing |-> Wildcard, imports |-> is] :
     is \in SeqsUpTo(ImportItems, MaxImports)}

InitImports ==
  /\ HandlerIdle
  /\ RegexIdle
  /\ source \in ImportTexts
  /\ tree = Parse(source)
  /\ query = NoQuery
  /\ result = NoNode

CallFindImportNameNode(name) ==
  /\ query' = [op |-> "findImportNameNode", name |-> name]
  /\ result' = findImportNameNode(tree, name)
  /\ UNCHANGED <<source, tree, handlerVars, lastIndex>>

NextImports ==
  /\ \E name \in LookedUpNames : CallFindImportNameNode(name)
  /\ UNCHANGED calls

SpecImports == InitImports /\ [][NextImports]_vars

\* C8: in a file containing  import A.B as C  (and no other import that the
\* language makes visible as C: none with the same alias, no unaliased import
\* of a module named C), looking up C yields that clause's module-name node,
\* whose text is A.B.
C8_AliasYieldsModuleName ==
  query.op = "findImportNameNode"
  => \A i \in 1..Len(source.imports) :
       (/\ source.imports[i].alias = query.name
        /\ \A j \in 1..Len(source.imports) :
             /\ source.imports[j].alias = query.name
                  => source.imports[j].module = source.imports[i].module
             /\ source.imports[j].alias = <<>>
                  => QidText(source.imports[j].module) # query.name)
       => /\ result # NoNode
          /\ Text(NodeAt(tree, result)) = QidText(source.imports[i].module)

\* C9: when every import of module A.B is aliased (and no alias spells A.B),
\* looking up the unaliased name A.B yields no import.
C9_NoDualVisibility ==
  (/\ query.op = "findImportNameNode"
   /\ \E i \in 1..Len(source.imports) : QidText(source.imports[i].module) = query.name
   /\ \A i \in 1..Len(source.imports) :
        /\ QidText(source.imports[i].module) = query.name
             => source.imports[i].alias \notin {<<>>, query.name}
        /\ source.imports[i].alias # query.name)
  => result = NoNode

----------------------------------------------------------------------------
(* Specification SpecPosition: getNamedDescendantForPosition on every      *)
(* document of up to MaxLen characters and every position around it        *)

DocChars == {"o", "7", "_", ".", "\n"}
Documents == SeqsUpTo(DocChars, MaxLen)

InitPosition ==
  /\ HandlerIdle
  /\ RegexIdle
  /\ source \in Documents
  /\ tree = Parse(NoText)
  /\ query = NoQuery
  /\ result = TypeError

CallGetNamedDescendantForPosition(line, character) ==
  /\ query' = [op |-> "getNamedDescendantForPosition",
               line |-> line, character |-> character]
  /\ result' = getNamedDescendantForPosition(source, line, character)
  /\ lastIndex' = lastIndexAfterTest(source, line, character)
  /\ UNCHANGED <<source, tree, handlerVars>>

NextPosition ==
  /\ \E line \in 0..MaxLen, character \in 0..(MaxLen + 1) :
       CallGetNamedDescendantForPosition(line, character)
  /\ UNCHANGED calls

SpecPosition == InitPosition /\ [][NextPosition]_vars

\* the lines of a document, counted on the text itself
NewlinesBefore(text, i) == Cardinality({j \in 1..(i - 1) : text[j] = "\n"})
LineCount(text) == NewlinesBefore(text, Len(text) + 1) + 1
\* the indexes of the text that hold column col of line line (one or none)
IndexOf(text, line, col) ==
  {i \in 1..Len(text) :
     /\ text[i] # "\n"
     /\ NewlinesBefore(text, i) = line
     /\ Cardinality({j \in 1..(i - 1) : NewlinesBefore(text, j) = line}) = col}
IdentifierCharAt(text, line, col) ==
  \E i \in IndexOf(text, line, col) : text[i] \in IdentifierChars

\* C10: on a line of the text, with c > 0 and an identifier character at column
\* c-1 the lookup is the range [c-1, c] of that line; in every other case, and
\* always for c = 0, it is the point lookup at column c.
C10_LookupRange ==
  (/\ query.op = "getNamedDescendantForPosition"
   /\ query.line < LineCount(source))
  => IF query.character > 0
        /\ IdentifierCharAt(source, query.line, query.character - 1)
     THEN result = Lookup(query.line, query.character - 1, query.character)
     ELSE result = Lookup(query.line, query.character, query.character)

\* C10 witness: the cursor stands right after the last character of an
\* identifier on the second line and the lookup is the range before it
C10_Witness ==
  /\ query.op = "getNamedDescendantForPosition"
  /\ source = <<".", "\n", "o", "7">>
  /\ query.line = 1
  /\ query.character = 2
  /\ result = Lookup(1, 1, 2)

----------------------------------------------------------------------------
(* Forest and Imports, as the handler uses them *)

undefined == Leaf("undefined", FALSE, <<>>)

HasEntry(f, uri) == \E c \in f : c.uri = uri

\* Forest.getByUri: only called where the entry exists
getByUri(f, uri) == CHOOSE c \in f : c.uri = uri

\* Forest.getTree
getTree(f, uri) == IF HasEntry(f, uri) THEN getByUri(f, uri).tree ELSE undefined

\* Forest.setTree(fileId, isOpen, isWriteable, tree): replaces the whole entry
setTree(f, uri, isOpen, isWriteable, t) ==
  {c \in f : c.uri # uri}
  \cup {[uri |-> uri, isOpen |-> isOpen, writeable |-> isWriteable, tree |-> t]}

\* the import/exposing-derived tables of one file
TablesOf(t) ==
  [modules |-> {Text(NodeAt(t, children(t, findAllImportClauseNodes(t)[i])[2])) :
                  i \in 1..Len(findAllImportClauseNodes(t))},
   exposesAll |-> /\ findModuleDeclaration(t) # NoNode
                  /\ hasDoubleDot(t, findModuleDeclaration(t))]

\* Imports.updateImports(uri, tree, forest)
updateImports(imps, uri, t, f) ==
  {e \in imps : e.uri # uri} \cup {[uri |-> uri, table |-> TablesOf(t)]}

----------------------------------------------------------------------------
(* ASTProvider.handleChangeTextDocument and the full-forest scan of        *)
(* runDiagnosticTests, as tasks of the single JavaScript thread.  A task   *)
(* keeps the thread from its start until it returns, unless it arrives at  *)
(* a suspension point (an await).                                          *)

Uris == 1..NumUris
Tasks == 1..NumTasks

OldText == [hasModule |-> TRUE, exposing |-> Wildcard, imports |-> <<>>]
DiskText ==
  [hasModule |-> TRUE, exposing |-> Wildcard,
   imports |-> <<[module |-> << <<"A">>, <<"B">> >>, alias |-> <<"C">>, exposesAll |-> FALSE]>>]
ChangeTexts ==
  {[hasModule |-> TRUE,
    exposing |-> Explicit(<<[kind |-> "value", name |-> foo, ctors |-> FALSE]>>),
    imports |-> <<>>],
   [hasModule |-> TRUE, exposing |-> Wildcard,
    imports |-> <<[module |-> << <<"C">> >>, alias |-> <<>>, exposesAll |-> FALSE]>>]}

\* readFileSync(path, "utf8"): the text, or the failure it throws
readFileSync(st, uri) == st[uri]
Unreadable == [ok |-> FALSE, text |-> NoText]
Readable(text) == [ok |-> TRUE, text |-> text]

Call(fn, uri, t) == [fn |-> fn, uri |-> uri, tree |-> t]

IdleTask ==
  [kind |-> "none", pc |-> "idle", uri |-> 0, given |-> <<>>, changes |-> <<>>,
   tree |-> undefined, calls |-> <<>>, outcome |-> "none",
   forest0 |-> {}, imports0 |-> {}, todo |-> {}, reported |-> {}]

\* an await in the middle of the handler: the thread is given up before the read
SuspensionPointsAwaitRead == {"read"}

\* the program points at which a task awaits: the handler's body holds no
\* await (readFileSync is synchronous), Map.forEach of the scan neither
SuspensionPoints == {}

\* a new invocation takes the first free slot
FreeSlot(t) == task[t].pc = "idle" /\ \A x \in Tasks : task[x].pc = "idle" => t <= x

CanStep(t) == running = t \/ (running = 0 /\ task[t].pc \in SuspensionPoints)
Release(t, pc) == IF pc \in SuspensionPoints THEN 0 ELSE t

\* a reading failure that is swallowed
pcAfterReadSwallowed(r) == "loop"

\* line 45: readFileSync throws out of the handler, or its text is parsed
pcAfterRead(r) == IF r.ok THEN "loop" ELSE "failed"

\* a change that is dropped once a tree is at hand
treeAfterChangeKept(t, changeEvent) == IF t # undefined THEN t ELSE Parse(changeEvent)

\* line 87: every content change reparses its full text
treeAfterChange(t, changeEvent) == Parse(changeEvent)

\* an install that rebuilds the map around the one entry
installTreeAlone(f, uri, t) == setTree({}, uri, TRUE, TRUE, t)

\* line 91
installTree(f, uri, t) == setTree(f, uri, TRUE, TRUE, t)

\* the two calls in the other order
TailOrderSwapped == <<"update", "install">>

\* lines 90-93: setTree, then updateImports
TailOrder == <<"install", "update">>

pcAfterTail(pc) ==
  LET i == CHOOSE k \in 1..Len(TailOrder) : TailOrder[k] = pc
  IN IF i < Len(TailOrder) THEN TailOrder[i + 1] ELSE "done"

Init ==
  /\ QueryIdle
  /\ \E present \in SUBSET Uris :
       \E pick \in [present -> BOOLEAN] :
         forest = {[uri |-> u, isOpen |-> FALSE, writeable |-> pick[u],
                    tree |-> Parse(OldText)] : u \in present}
  /\ imports = {[uri |-> c.uri, table |-> TablesOf(c.tree)] : c \in forest}
  /\ storage \in [Uris -> {Unreadable, Readable(DiskText)}]
  /\ task = [t \in Tasks |-> IdleTask]
  /\ running = 0
  /\ batch = BatchIdle

\* the "change" event is dispatched to the handler
StartChange(t, uri, contentChanges) ==
  /\ running = 0
  /\ FreeSlot(t)
  /\ task' = [task EXCEPT ![t] =
       [IdleTask EXCEPT !.kind = "change", !.pc = "getTree", !.uri = uri,
                        !.given = contentChanges, !.changes = contentChanges,
                        !.outcome = "pending",
                        !.forest0 = forest, !.imports0 = imports]]
  /\ running' = Release(t, "getTree")
  /\ UNCHANGED <<forest, imports, storage, queryVars, batch>>

\* line 43
GetTree(t) ==
  /\ CanStep(t)
  /\ task[t].pc = "getTree"
  /\ LET found == getTree(forest, task[t].uri)
         pc == IF found = undefined THEN "read" ELSE "loop"
     IN /\ task' = [task EXCEPT ![t].tree = found, ![t].pc = pc]
        /\ running' = Release(t, pc)
  /\ UNCHANGED <<forest, imports, storage, queryVars, batch>>

\* lines 44-50
ReadFile(t) ==
  /\ CanStep(t)
  /\ task[t].pc = "read"
  /\ LET r == readFileSync(storage, task[t].uri)
         pc == pcAfterRead(r)
     IN /\ task' = [task EXCEPT
              ![t].calls = Append(@, Call("readFileSync", task[t].uri, undefined)),
              ![t].tree = IF pc = "failed" THEN @ ELSE Parse(r.text),
              ![t].outcome = IF pc = "failed" THEN "rejected" ELSE @,
              ![t].pc = pc]
        /\ running' = Release(t, pc)
  /\ UNCHANGED <<forest, imports, storage, queryVars, batch>>

\* lines 52-89, one iteration
ParseChange(t) ==
  /\ CanStep(t)
  /\ task[t].pc = "loop"
  /\ task[t].changes # <<>>
  /\ task' = [task EXCEPT
       ![t].tree = treeAfterChange(@, Head(task[t].changes)),
       ![t].changes = Tail(@)]
  /\ running' = Release(t, "loop")
  /\ UNCHANGED <<forest, imports, storage, queryVars, batch>>

\* lines 52-89, the loop ends
EndLoop(t) ==
  /\ CanStep(t)
  /\ task[t].pc = "loop"
  /\ task[t].changes = <<>>
  /\ task' = [task EXCEPT ![t].pc = TailOrder[1]]
  /\ running' = Release(t, TailOrder[1])
  /\ UNCHANGED <<forest, imports, storage, queryVars, batch>>

\* lines 90-91
Install(t) ==
  /\ CanStep(t)
  /\ task[t].pc = "install"
  /\ IF task[t].tree # undefined
     THEN /\ forest' = installTree(forest, task[t].uri, task[t].tree)
          /\ task' = [task EXCEPT
               ![t].calls = Append(@, Call("setTree", task[t].uri, task[t].tree)),
               ![t].pc = pcAfterTail("install"),
               ![t].outcome = IF pcAfterTail("install") = "done" THEN "resolved" ELSE @]
     ELSE /\ forest' = forest
          /\ task' = [task EXCEPT
               ![t].pc = pcAfterTail("install"),
               ![t].outcome = IF pcAfterTail("install") = "done" THEN "resolved" ELSE @]
  /\ running' = Release(t, pcAfterTail("install"))
  /\ UNCHANGED <<imports, storage, queryVars, batch>>

\* lines 90, 92
Update(t) ==
  /\ CanStep(t)
  /\ task[t].pc = "update"
  /\ IF task[t].tree # undefined
     THEN /\ imports' = updateImports(imports, task[t].uri, task[t].tree, forest)
          /\ task' = [task EXCEPT
               ![t].calls = Append(@, Call("updateImports", task[t].uri, task[t].tree)),
               ![t].pc = pcAfterTail("update"),
               ![t].outcome = IF pcAfterTail("update") = "done" THEN "resolved" ELSE @]
     ELSE /\ imports' = imports
          /\ task' = [task EXCEPT
               ![t].pc = pcAfterTail("update"),
               ![t].outcome = IF pcAfterTail("update") = "done" THEN "resolved" ELSE @]
  /\ running' = Release(t, pcAfterTail("update"))
  /\ UNCHANGED <<forest, storage, queryVars, batch>>

\* runDiagnosticTests lines 62-64: treeMap.forEach starts
StartScan(t) ==
  /\ running = 0
  /\ FreeSlot(t)
  /\ task' = [task EXCEPT ![t] =
       [IdleTask EXCEPT !.kind = "scan", !.pc = "scan", !.outcome = "pending",
                        !.todo = {c.uri : c \in forest},
                        !.forest0 = forest, !.imports0 = imports]]
  /\ running' = Release(t, "scan")
  /\ UNCHANGED <<forest, imports, storage, queryVars, batch>>

\* runDiagnosticTests lines 64-74: one container is visited; what is found for
\* it is kept when getByUri(d.uri)?.writeable
ScanVisit(t) ==
  /\ CanStep(t)
  /\ task[t].pc = "scan"
  /\ \E uri \in task[t].todo :
       task' = [task EXCEPT
         ![t].todo = @ \ {uri},
         ![t].reported = IF HasEntry(forest, uri) /\ getByUri(forest, uri).writeable
                         THEN @ \cup {uri} ELSE @]
  /\ running' = Release(t, "scan")
  /\ UNCHANGED <<forest, imports, storage, queryVars, batch>>

\* runDiagnosticTests line 75: forEach is through
EndScan(t) ==
  /\ CanStep(t)
  /\ task[t].pc = "scan"
  /\ task[t].todo = {}
  /\ task' = [task EXCEPT ![t].pc = "scanned", ![t].outcome = "resolved"]
  /\ running' = Release(t, "scanned")
  /\ UNCHANGED <<forest, imports, storage, queryVars, batch>>

\* the task has returned or thrown: the thread is free again
Return(t) ==
  /\ running = t
  /\ task[t].pc \in {"done", "failed", "scanned"}
  /\ task' = [task EXCEPT ![t] = IdleTask]
  /\ running' = 0
  /\ UNCHANGED <<forest, imports, storage, queryVars, batch>>

Next ==
  \E t \in Tasks :
    \/ \E uri \in Uris, contentChanges \in SeqsUpTo(ChangeTexts, MaxChanges) :
         StartChange(t, uri, contentChanges)
    \/ GetTree(t)
    \/ ReadFile(t)
    \/ ParseChange(t)
    \/ EndLoop(t)
    \/ Install(t)
    \/ Update(t)
    \/ StartScan(t)
    \/ ScanVisit(t)
    \/ EndScan(t)
    \/ Return(t)

Spec == Init /\ [][Next]_vars

----------------------------------------------------------------------------
(* Claims about the reparse handler *)

Changing(t) == task[t].kind = "change"

ForestCalls(t) ==
  SelectSeq(task[t].calls, LAMBDA c : c.fn \in {"setTree", "updateImports"})

TablesConsistent ==
  \A c \in forest : [uri |-> c.uri, table |-> TablesOf(c.tree)] \in imports

\* C1: when the handler has completed for u, u's tree in the forest is the parse
\* of the last content change if there is one, else the tree registered before,
\* else the parse of the stored text; storage is read only when the forest had
\* no entry for u.
C1_InstalledTree ==
  \A t \in Tasks :
    Changing(t) =>
      /\ task[t].pc = "done" =>
           getTree(forest, task[t].uri) =
             IF Len(task[t].given) > 0
             THEN Parse(task[t].given[Len(task[t].given)])
             ELSE IF HasEntry(task[t].forest0, task[t].uri)
                  THEN getTree(task[t].forest0, task[t].uri)
                  ELSE Parse(storage[task[t].uri].text)
      /\ (\E i \in 1..Len(task[t].calls) : task[t].calls[i].fn = "readFileSync")
           => ~HasEntry(task[t].forest0, task[t].uri)

\* C1 witness: a notification with two different changes for a registered file
\* has been handled and the last change's parse is installed
C1_Witness ==
  \E t \in Tasks :
    /\ Changing(t)
    /\ task[t].pc = "done"
    /\ Len(task[t].given) = 2
    /\ task[t].given[1] # task[t].given[2]
    /\ HasEntry(task[t].forest0, task[t].uri)
    /\ getTree(forest, task[t].uri) = Parse(task[t].given[2])

\* C2: the forest holds at most one entry per file identity, and a handling for
\* u leaves every other file's entry as it was and puts one whole new entry for u.
C2_OneEntryPerFileAndFrame ==
  /\ \A c1, c2 \in forest : c1.uri = c2.uri => c1 = c2
  /\ \A t \in Tasks :
       Changing(t) =>
         /\ {c \in forest : c.uri # task[t].uri}
              = {c \in task[t].forest0 : c.uri # task[t].uri}
         /\ task[t].pc = "done" =>
              {c \in forest : c.uri = task[t].uri}
                = {[uri |-> task[t].uri, isOpen |-> TRUE, writeable |-> TRUE,
                    tree |-> task[t].tree]}

\* C2 witness: u's read-only entry was replaced while another file's entry stayed
C2_Witness ==
  \E t \in Tasks :
    /\ Changing(t)
    /\ task[t].pc = "done"
    /\ HasEntry(task[t].forest0, task[t].uri)
    /\ ~getByUri(task[t].forest0, task[t].uri).writeable
    /\ getTree(task[t].forest0, task[t].uri) # getTree(forest, task[t].uri)
    /\ \E c \in forest : c.uri # task[t].uri

\* C3: within one handling setTree for u comes first, updateImports for u comes
\* after it with the same tree, once; a completed handling has made both calls
\* and a failed one neither.
C3_InstallBeforeUpdate ==
  \A t \in Tasks :
    Changing(t) =>
      LET cs == ForestCalls(t)
      IN /\ Len(cs) <= 2
         /\ Len(cs) >= 1 => cs[1].fn = "setTree" /\ cs[1].uri = task[t].uri
         /\ Len(cs) = 2 => cs[2] = Call("updateImports", task[t].uri, cs[1].tree)
         /\ task[t].pc = "done" =>
              /\ Len(cs) = 2
              /\ getTree(forest, task[t].uri) = cs[2].tree
         /\ task[t].pc = "failed" => Len(cs) = 0

\* C3 witness: a handling has completed with the two calls made
C3_Witness ==
  \E t \in Tasks :
    /\ Changing(t)
    /\ task[t].pc = "done"
    /\ Len(ForestCalls(t)) = 2
    /\ ForestCalls(t)[2].fn = "updateImports"

\* C4: a started handler or scan keeps the thread until it returns, so no two
\* tasks are under way at once, and whenever the thread is free or a scan
\* holds it every file's tables are those of its tree in the forest.
C4_NoYieldMidMutation ==
  /\ \A t \in Tasks : task[t].pc # "idle" => running = t
  /\ (running = 0 \/ task[running].kind = "scan") => TablesConsistent

\* C4 witness: the handler stands between the install and the table update,
\* the forest holds u's new tree with u's old tables, and it holds the thread
C4_Witness ==
  \E t \in Tasks :
    /\ Changing(t)
    /\ task[t].pc = "update"
    /\ running = t
    /\ HasEntry(task[t].forest0, task[t].uri)
    /\ ~TablesConsistent

\* C5: when u has no forest entry and reading u fails, the handler ends
\* rejected, and the forest and the tables are what they were at its start.
C5_ReadFailurePropagates ==
  \A t \in Tasks :
    Changing(t) =>
      /\ task[t].pc = "failed" =>
           /\ task[t].outcome = "rejected"
           /\ forest = task[t].forest0
           /\ imports = task[t].imports0
           /\ ~HasEntry(forest, task[t].uri)
      /\ (/\ ~HasEntry(task[t].forest0, task[t].uri)
          /\ ~storage[task[t].uri].ok
          /\ task[t].pc \notin {"getTree", "read"})
           => task[t].pc = "failed"

\* C5 witness: a handling with pending changes failed on the read while the
\* forest held another file
C5_Witness ==
  \E t \in Tasks :
    /\ Changing(t)
    /\ task[t].pc = "failed"
    /\ task[t].given # <<>>
    /\ forest # {}

----------------------------------------------------------------------------
(* TreeUtils: successor traversal *)

\* SyntaxNode.parent
parent(p) == IF p = <<>> THEN NoNode ELSE SubSeq(p, 1, Len(p) - 1)

\* SyntaxNode.firstNamedChild
firstNamedChild(root, p) ==
  LET hits == {i \in 1..Len(NodeAt(root, p).kids) : NodeAt(root, p).kids[i].named}
  IN IF hits = {} THEN NoNode ELSE Append(p, Min(hits))

\* SyntaxNode.nextNamedSibling
nextNamedSibling(root, p) ==
  IF p = <<>> THEN NoNode
  ELSE LET hits == {i \in 1..Len(NodeAt(root, parent(p)).kids) :
                      i > p[Len(p)] /\ NodeAt(root, parent(p)).kids[i].named}
       IN IF hits = {} THEN NoNode ELSE Append(parent(p), Min(hits))

\* nextNode, first loop: move up until we have a sibling
RECURSIVE climbToSibling(_, _)
climbToSibling(root, node) ==
  IF nextNamedSibling(root, node) = NoNode /\ parent(node) # NoNode
  THEN climbToSibling(root, parent(node))
  ELSE node

\* nextNode, second loop: move down the leftmost subtree
RECURSIVE leftmostNamed(_, _)
leftmostNamed(root, node) ==
  IF firstNamedChild(root, node) # NoNode
  THEN leftmostNamed(root, firstNamedChild(root, node))
  ELSE node

\* the successor without the descent into the sibling
nextNodeNoDescent(root, node) ==
  nextNamedSibling(root, climbToSibling(root, node))

nextNode(root, node) ==
  LET up == climbToSibling(root, node)
  IN IF nextNamedSibling(root, up) # NoNode
     THEN leftmostNamed(root, nextNamedSibling(root, up))
     ELSE NoNode

----------------------------------------------------------------------------
(* Specification SpecTraversal: nextNode applied again and again, on every *)
(* tree of up to MaxNodes nodes whose leaves are named nodes or anonymous  *)
(* tokens, from the first leaf or from the first named node without named  *)
(* children                                                                *)

RECURSIVE TreesOfSize(_)
RECURSIVE ForestsOfSize(_)
TreesOfSize(n) ==
  IF n = 1 THEN {Leaf("identifier", TRUE, <<"x">>), Leaf(",", FALSE, <<",">>)}
  ELSE {Inner("node", f) : f \in ForestsOfSize(n - 1)}
ForestsOfSize(n) ==
  IF n = 0 THEN {<<>>}
  ELSE UNION {{<<t>> \o f : t \in TreesOfSize(k), f \in ForestsOfSize(n - k)} : k \in 1..n}

WalkedTrees == UNION {{Inner("file", f) : f \in ForestsOfSize(n)} : n \in 1..(MaxNodes - 1)}

RECURSIVE firstLeaf(_, _)
firstLeaf(root, p) ==
  IF NodeAt(root, p).kids = <<>> THEN p ELSE firstLeaf(root, Append(p, 1))

Walk(visited, done) == [visited |-> visited, done |-> done]

InitTraversal ==
  /\ HandlerIdle
  /\ RegexIdle
  /\ source = NoText
  /\ tree \in WalkedTrees
  /\ \E start \in {firstLeaf(tree, <<>>), leftmostNamed(tree, <<>>)} :
       /\ query = [op |-> "nextNode", start |-> start]
       /\ result = Walk(<<start>>, FALSE)

\* one more application of nextNode to the node reached
StepNextNode ==
  /\ query.op = "nextNode"
  /\ ~result.done
  /\ LET next == nextNode(tree, result.visited[Len(result.visited)])
     IN result' = IF next = NoNode
                  THEN Walk(result.visited, TRUE)
                  ELSE Walk(Append(result.visited, next), FALSE)
  /\ UNCHANGED <<source, tree, query, handlerVars, lastIndex>>

NextTraversal == StepNextNode /\ UNCHANGED calls

SpecTraversal == InitTraversal /\ [][NextTraversal]_vars

\* document order of two nodes given by their paths
RECURSIVE Before(_, _)
Before(p, q) ==
  IF p = <<>> THEN q # <<>>
  ELSE IF q = <<>> THEN FALSE
  ELSE IF Head(p) # Head(q) THEN Head(p) < Head(q)
  ELSE Before(Tail(p), Tail(q))

\* all nodes of a tree, as paths
RECURSIVE PathsOf(_, _)
PathsOf(root, p) ==
  {p} \cup UNION {PathsOf(root, Append(p, i)) : i \in 1..Len(NodeAt(root, p).kids)}

LeavesOf(root) == {p \in PathsOf(root, <<>>) : NodeAt(root, p).kids = <<>>}

\* the named nodes that have no named child
NamedLeavesOf(root) ==
  {p \in PathsOf(root, <<>>) :
     /\ NodeAt(root, p).named
     /\ \A i \in 1..Len(NodeAt(root, p).kids) : ~NodeAt(root, p).kids[i].named}

Range(seq) == {seq[i] : i \in 1..Len(seq)}

\* C11 as stated: from the first leaf, the finished walk has visited every leaf
\* of the tree once, in document order.
C11_VisitsEveryLeaf ==
  (query.op = "nextNode" /\ query.start = firstLeaf(tree, <<>>) /\ result.done)
  => /\ Range(result.visited) = LeavesOf(tree)
     /\ \A i, j \in 1..Len(result.visited) :
          i < j => Before(result.visited[i], result.visited[j])

\* C11 amended: every step of the walk moves forward in document order, so no
\* node is visited twice, and the walk is never longer than the number of named
\* nodes without named children (plus the node it started at); from the
\* first named node without named children, the finished walk has visited
\* exactly the named nodes without named children; anonymous leaves are skipped.
C11_VisitsEveryNamedLeaf ==
  query.op = "nextNode"
  => /\ \A i, j \in 1..Len(result.visited) :
          i < j => Before(result.visited[i], result.visited[j])
     /\ \A i \in 2..Len(result.visited) : result.visited[i] \in NamedLeavesOf(tree)
     /\ query.start = leftmostNamed(tree, <<>>)
          => /\ Range(result.visited) \subseteq NamedLeavesOf(tree)
             /\ result.done => Range(result.visited) = NamedLeavesOf(tree)
     /\ Len(result.visited) <= Cardinality(NamedLeavesOf(tree)) + 1

\* C11 witness: a finished walk over a tree with an anonymous leaf between two
\* named ones, the second of them deeper in the tree
C11_Witness ==
  /\ query.op = "nextNode"
  /\ query.start = leftmostNamed(tree, <<>>)
  /\ result.done
  /\ Len(result.visited) >= 2
  /\ LeavesOf(tree) # NamedLeavesOf(tree)
  /\ \E i \in 1..Len(result.visited) : Len(result.visited[i]) >= 2

----------------------------------------------------------------------------
(* Type model: the Record type shape with its field references *)

\* a definition node of a field, with the tree it belongs to
FieldRef(node, uri) == [node |-> node, tree |-> [uri |-> uri]]

\* a Record type carrying fieldReferences: name -> ordered list of nodes
RecordType(refs) == [nodeType |-> "Record", fieldReferences |-> refs]

\* a type of another kind; it carries no field references
OtherType(nodeType) == [nodeType |-> nodeType]

\* fieldReferences.get: the list of the field, empty when the field is absent
fieldReferencesGet(refs, fieldName) ==
  IF fieldName \in DOMAIN refs THEN refs[fieldName] ELSE <<>>

----------------------------------------------------------------------------
(* TreeUtils.findFieldReference *)

\* refUri when there is no first reference
NoUri == 0

\* the function's result when it falls off its end
NoReference == [node |-> NoNode, nodeType |-> "undefined", uri |-> NoUri]

\* the lookup answering with the last reference of the field
findFieldReferenceLast(type, fieldName) ==
  IF type.nodeType = "Record"
  THEN LET fieldRefs == fieldReferencesGet(type.fieldReferences, fieldName)
       IN IF Len(fieldRefs) > 0
          THEN [node |-> fieldRefs[Len(fieldRefs)].node, nodeType |-> "FieldType",
                uri |-> fieldRefs[Len(fieldRefs)].tree.uri]
          ELSE NoReference
  ELSE NoReference

findFieldReference(type, fieldName) ==
  IF type.nodeType = "Record"
  THEN LET fieldRefs == fieldReferencesGet(type.fieldReferences, fieldName)
       IN IF Len(fieldRefs) > 0
          THEN LET refUri == fieldRefs[1].tree.uri
               IN IF refUri # NoUri
                  THEN [node |-> fieldRefs[1].node, nodeType |-> "FieldType",
                        uri |-> refUri]
                  ELSE NoReference
          ELSE NoReference
  ELSE NoReference

----------------------------------------------------------------------------
(* Specification SpecFieldRef: findFieldReference on Record types over the *)
(* fields x and y with up to MaxRefs references each, and on other types   *)

FieldNames == {"x", "y", "z"}
DeclaredFields == {"x", "y"}

\* definition nodes of fields: field_type nodes in the trees of the forest
FieldRefs == {FieldRef(<<i>>, uri) : i \in 1..2, uri \in Uris}

FieldReferenceTables ==
  UNION {[fs -> SeqsUpTo(FieldRefs, MaxRefs)] : fs \in SUBSET DeclaredFields}

Types ==
  {RecordType(refs) : refs \in FieldReferenceTables}
    \cup {OtherType(nodeType) : nodeType \in {"Function", "Unknown"}}

InitFieldRef ==
  /\ HandlerIdle
  /\ RegexIdle
  /\ source = NoText
  /\ tree \in Types
  /\ query = NoQuery
  /\ result = NoReference

CallFindFieldReference(fieldName) ==
  /\ query' = [op |-> "findFieldReference", fieldName |-> fieldName]
  /\ result' = findFieldReference(tree, fieldName)
  /\ UNCHANGED <<source, tree, handlerVars, lastIndex>>

NextFieldRef ==
  /\ \E fieldName \in FieldNames : CallFindFieldReference(fieldName)
  /\ UNCHANGED calls

SpecFieldRef == InitFieldRef /\ [][NextFieldRef]_vars

\* the type is a Record with at least one reference for the field
HasReference(type, fieldName) ==
  /\ type.nodeType = "Record"
  /\ fieldName \in DOMAIN type.fieldReferences
  /\ type.fieldReferences[fieldName] # <<>>

\* C12: for a Record with references for fieldName the result is the first
\* reference's node, the identity of its file and the kind FieldType; for a
\* type that is not a Record or has no reference for fieldName the result is
\* the empty result (never a fault, which the result record cannot even hold).
C12_FirstReferenceOrNone ==
  query.op = "findFieldReference"
  => IF HasReference(tree, query.fieldName)
     THEN /\ result.node = tree.fieldReferences[query.fieldName][1].node
          /\ result.uri = tree.fieldReferences[query.fieldName][1].tree.uri
          /\ result.nodeType = "FieldType"
     ELSE result = NoReference

\* C12 witness: a field with two different references was looked up, and so
\* was a field the record does not have
C12_Witness ==
  /\ query.op = "findFieldReference"
  /\ tree.nodeType = "Record"
  /\ \/ /\ HasReference(tree, query.fieldName)
        /\ Len(tree.fieldReferences[query.fieldName]) = 2
        /\ tree.fieldReferences[query.fieldName][1] # tree.fieldReferences[query.fieldName][2]
        /\ result.nodeType = "FieldType"
     \/ /\ query.fieldName = "z"
        /\ DOMAIN tree.fieldReferences # {}
        /\ result = NoReference

----------------------------------------------------------------------------
(* Specification SpecPurity: up to MaxCalls TreeUtils queries of three     *)
(* kinds, one after another, on the text and the tree of one file.  The    *)
(* only state a query could carry over to the next one is the lastIndex of *)
(* the module-level functionNameRegex.                                     *)

PureDocuments == SeqsUpTo({"o", "."}, 2)

PureTexts ==
  {DiskText,
   [hasModule |-> TRUE,
    exposing |-> Explicit(<<[kind |-> "value", name |-> foo, ctors |-> FALSE]>>),
    imports |-> <<>>]}

InitPurity ==
  /\ HandlerIdle
  /\ RegexIdle
  /\ source \in PureDocuments
  /\ tree \in {Parse(text) : text \in PureTexts}
  /\ query = NoQuery
  /\ result = FALSE

\* what is kept of one call: the call, its result, and the tree and the forest
\* before and after it
CallRecord(q, r, before, after) ==
  [query |-> q, result |-> r, before |-> before, after |-> after]

NextPurity ==
  /\ Len(calls) < MaxCalls
  /\ \/ \E character \in 0..2 : CallGetNamedDescendantForPosition(0, character)
     \/ \E name \in {foo, baz} : CallIsExposedFunction(name)
     \/ CallFindImportNameNode(<<"C">>)
  /\ calls' = Append(calls, CallRecord(query', result',
                                       <<source, tree, forest>>,
                                       <<source', tree', forest'>>))

SpecPurity == InitPurity /\ [][NextPurity]_vars

\* C13: every query left the text, the tree and the forest as it found them,
\* and two calls of the same query with the same arguments returned the same
\* result, whatever was called in between.
C13_QueriesArePure ==
  /\ \A i \in 1..Len(calls) : calls[i].after = calls[i].before
  /\ \A i, j \in 1..Len(calls) :
       calls[i].query = calls[j].query => calls[i].result = calls[j].result

\* C13 witness: a position query that found an identifier character before the
\* cursor, another query, and the first query again
C13_Witness ==
  /\ Len(calls) = 3
  /\ calls[1].query.op = "getNamedDescendantForPosition"
  /\ calls[1].result.startColumn < calls[1].result.endColumn
  /\ calls[2].query # calls[1].query
  /\ calls[3].query = calls[1].query

----------------------------------------------------------------------------
(* The change handler and read-only files *)

\* C14: no step of the program replaces or removes a read-only forest entry,
\* so the writeable flag of a file never turns from false to true.
C14_ReadOnlyEntriesKept ==
  [][\A c \in forest : ~c.writeable => c \in forest']_vars

----------------------------------------------------------------------------
(* test/diagnostics.ts: testAll, the run over all projects *)

\* [...applications, ...filteredLibs], a project standing for its place in it
Projects == 1..NumProjects

\* where control goes when the try block of testAll throws, were there no catch
pcAfterThrowUncaught == "rejected"

\* where control goes when the try block of testAll throws: its catch clause
pcAfterThrow == "catch"

\* the loop header after one iteration: the next project, or the summary
pcAfterIteration(i) == IF i > NumProjects THEN "summary" ELSE "log"

Outcome(b, o) == [b EXCEPT !.outcomes = Append(@, o)]

\* testAll is called; initParser has resolved and the loop is entered
TestAll ==
  /\ batch.pc = "idle"
  /\ batch' = [batch EXCEPT !.pc = pcAfterIteration(1), !.i = 1]
  /\ UNCHANGED <<forest, imports, storage, task, running, queryVars>>

\* console.log(lib)
LogLib ==
  /\ batch.pc = "log"
  /\ batch' = [batch EXCEPT !.pc = "checkout", !.logged = Append(@, batch.i)]
  /\ UNCHANGED <<forest, imports, storage, task, running, queryVars>>

\* checkout(dir, lib): returns, or throws (process.chdir into a missing directory)
Checkout ==
  /\ batch.pc = "checkout"
  /\ \/ batch' = [batch EXCEPT !.pc = "init"]
     \/ batch' = [Outcome(batch, "checkout threw") EXCEPT !.pc = pcAfterThrow]
  /\ UNCHANGED <<forest, imports, storage, task, running, queryVars>>

\* runDiagnosticTests, lines 54-58: the workspace is initialised, or init throws
\* and the function's own catch pushes the project onto failed
WorkspaceInit ==
  /\ batch.pc = "init"
  /\ \/ batch' = [batch EXCEPT !.pc = "diagnostics"]
     \/ batch' = [Outcome(batch, "init threw") EXCEPT
                    !.pc = "finally", !.failed = Append(@, batch.i)]
  /\ UNCHANGED <<forest, imports, storage, task, running, queryVars>>

\* runDiagnosticTests, lines 60-98: no diagnostics, some diagnostics, or an
\* exception while they are computed; the function returns in each case
Diagnostics ==
  /\ batch.pc = "diagnostics"
  /\ \/ batch' = [Outcome(batch, "clean") EXCEPT !.pc = "finally"]
     \/ batch' = [Outcome(batch, "diagnostics") EXCEPT
                    !.pc = "finally", !.failed = Append(@, batch.i)]
     \/ batch' = [Outcome(batch, "diagnostics threw") EXCEPT
                    !.pc = "finally", !.failed = Append(@, batch.i)]
  /\ UNCHANGED <<forest, imports, storage, task, running, queryVars>>

\* catch (e) { console.log(e) }
Catch ==
  /\ batch.pc = "catch"
  /\ batch' = [batch EXCEPT !.pc = "finally"]
  /\ UNCHANGED <<forest, imports, storage, task, running, queryVars>>

\* finally { gc }, then the loop goes on
Finally ==
  /\ batch.pc = "finally"
  /\ batch' = [batch EXCEPT !.pc = pcAfterIteration(batch.i + 1), !.i = batch.i + 1]
  /\ UNCHANGED <<forest, imports, storage, task, running, queryVars>>

\* console.log("FAILURES") and the lines after it
Summary ==
  /\ batch.pc = "summary"
  /\ batch' = [batch EXCEPT !.pc = "done"]
  /\ UNCHANGED <<forest, imports, storage, task, running, queryVars>>

InitBatch ==
  /\ QueryIdle
  /\ HandlerIdle

NextBatch ==
  \/ TestAll
  \/ LogLib
  \/ Checkout
  \/ WorkspaceInit
  \/ Diagnostics
  \/ Catch
  \/ Finally
  \/ Summary

\* every awaited promise settles and the event loop then runs the continuation
SpecBatch == InitBatch /\ [][NextBatch]_vars /\ WF_vars(NextBatch)

ProjectList == [k \in 1..NumProjects |-> k]

\* C15: at all times the projects logged are the first projects of the list, in
\* list order and once each, one outcome per finished project; and once the run
\* has started it reaches the summary with every project of the list processed,
\* whatever failed on the way.
C15_RunReachesSummary ==
  /\ [](/\ batch.logged = SubSeq(ProjectList, 1, Len(batch.logged))
        /\ batch.pc # "rejected"
        /\ batch.pc \in {"summary", "done"} =>
             (batch.logged = ProjectList /\ Len(batch.outcomes) = NumProjects))
  /\ (batch.pc # "idle") ~> (batch.pc = "done" /\ batch.logged = ProjectList)

\* C15 witness: the run is over; checkout threw for one project, workspace
\* initialisation or the diagnostics threw for another one, and a project after
\* both was processed without a failure
C15_Witness ==
  /\ batch.pc = "done"
  /\ \E i, j, k \in Projects :
       /\ i # j /\ i < k /\ j < k
       /\ batch.outcomes[i] = "checkout threw"
       /\ batch.outcomes[j] \in {"init threw", "diagnostics threw"}
       /\ batch.outcomes[k] = "clean"
       /\ batch.failed = <<j>>

----------------------------------------------------------------------------
(* getNamedDescendantForPosition on every position *)

\* C16: for every position, lines at or beyond the number of lines of the text
\* included, getNamedDescendantForPosition asks the tree for a node and raises
\* no fault.
C16_TotalOnEveryPosition ==
  query.op = "getNamedDescendantForPosition" => result.kind = "lookup"

----------------------------------------------------------------------------
(* TreeUtils.findPreviousNode.  Texts are single lines without blanks, so a *)
(* position is a column and the start and end positions of a node are its  *)
(* start and end index.                                                    *)

Max(S) == CHOOSE x \in S : \A y \in S : x >= y

\* SyntaxNode.startIndex
RECURSIVE startIndex(_, _)
startIndex(root, p) ==
  IF p = <<>> THEN 0
  ELSE startIndex(root, parent(p))
         + Len(Flatten([i \in 1..(p[Len(p)] - 1) |->
                          Text(NodeAt(root, parent(p)).kids[i])]))

\* SyntaxNode.endIndex
endIndex(root, p) == startIndex(root, p) + Len(Text(NodeAt(root, p)))

\* comparePosition(position, point): negative, zero or positive
comparePosition(position, point) ==
  IF position < point THEN -1 ELSE IF position = point THEN 0 ELSE 1

nodeHasTokens(root, n) == endIndex(root, n) - startIndex(root, n) # 0

\* the scan from childrenList[startIndex - 1] down to childrenList[0]
findRightmostChildWithTokens(root, childrenList, from) ==
  LET hits == {i \in 1..from : nodeHasTokens(root, childrenList[i])}
  IN IF hits = {} THEN NoNode ELSE childrenList[Max(hits)]

RECURSIVE findRightmostNode(_, _)
findRightmostNode(root, n) ==
  IF Len(children(root, n)) = 0 THEN n
  ELSE LET candidate == findRightmostChildWithTokens(root, children(root, n),
                                                     Len(children(root, n)))
       IN IF candidate # NoNode THEN findRightmostNode(root, candidate) ELSE NoNode

\* findPreviousNode from the i-th pass of its for loop on (i is 1-based)
RECURSIVE findPreviousNodeFrom(_, _, _, _)
findPreviousNodeFrom(root, node, position, i) ==
  LET kids == children(root, node)
  IN IF i > Len(kids)
     THEN LET candidate == findRightmostChildWithTokens(root, kids, Len(kids))
          IN IF candidate # NoNode THEN findRightmostNode(root, candidate) ELSE NoNode
     ELSE LET child == kids[i]
          IN IF comparePosition(position, endIndex(root, child)) < 0
             THEN LET lookInPreviousChild ==
                        \/ comparePosition(position, startIndex(root, child)) <= 0
                        \/ ~nodeHasTokens(root, child)
                  IN IF lookInPreviousChild
                     THEN LET candidate == findRightmostChildWithTokens(root, kids, i - 1)
                          IN IF candidate # NoNode
                             THEN findRightmostNode(root, candidate)
                             ELSE findPreviousNodeFrom(root, node, position, i + 1)
                     ELSE IF Len(children(root, child)) = 0 THEN child
                          ELSE findPreviousNodeFrom(root, child, position, 1)
             ELSE findPreviousNodeFrom(root, node, position, i + 1)

findPreviousNode(root, node, position) ==
  IF Len(children(root, node)) = 0 THEN node
  ELSE findPreviousNodeFrom(root, node, position, 1)

----------------------------------------------------------------------------
(* Specification SpecPrevious: findPreviousNode on the root of every tree  *)
(* of up to MaxNodes nodes whose leaves are identifiers of two characters, *)
(* one-character tokens or zero-width nodes, at every column of its text   *)

SpanLeaves ==
  {Leaf("identifier", TRUE, <<"x", "y">>), Leaf(",", FALSE, <<",">>),
   Leaf("MISSING", TRUE, <<>>)}

RECURSIVE SpanTreesOfSize(_)
RECURSIVE SpanForestsOfSize(_)
SpanTreesOfSize(n) ==
  IF n = 1 THEN SpanLeaves
  ELSE {Inner("node", f) : f \in SpanForestsOfSize(n - 1)}
SpanForestsOfSize(n) ==
  IF n = 0 THEN {<<>>}
  ELSE UNION {{<<t>> \o f : t \in SpanTreesOfSize(k), f \in SpanForestsOfSize(n - k)} :
                k \in 1..n}

SpanTrees ==
  UNION {{Inner("file", f) : f \in SpanForestsOfSize(n)} : n \in 1..(MaxNodes - 1)}

InitPrevious ==
  /\ HandlerIdle
  /\ RegexIdle
  /\ source = NoText
  /\ tree \in SpanTrees
  /\ query = NoQuery
  /\ result = NoNode

CallFindPreviousNode(position) ==
  /\ query' = [op |-> "findPreviousNode", position |-> position]
  /\ result' = findPreviousNode(tree, <<>>, position)
  /\ UNCHANGED <<source, tree, handlerVars, lastIndex>>

NextPrevious ==
  /\ \E position \in 0..Len(Text(tree)) : CallFindPreviousNode(position)
  /\ UNCHANGED calls

SpecPrevious == InitPrevious /\ [][NextPrevious]_vars

\* the leaves with a non-zero span that end at or before the position
LeavesEndingBy(root, position) ==
  {p \in LeavesOf(root) : nodeHasTokens(root, p) /\ endIndex(root, p) <= position}

\* C17: a node returned by findPreviousNode for a node with children is the
\* rightmost leaf with non-zero span whose end is at or before the position; in
\* particular it has no children, is not zero-width and does not end after the
\* position.
C17_RightmostLeafEndingByPosition ==
  (query.op = "findPreviousNode" /\ result # NoNode)
  => /\ result \in LeavesEndingBy(tree, query.position)
     /\ \A p \in LeavesEndingBy(tree, query.position) : p = result \/ Before(p, result)

----------------------------------------------------------------------------
(* Functions with their type annotations: the trees tree-sitter-elm makes  *)
(* of  f : t1 -> ... -> tn  and  f p1 ... pk = body                        *)

\* SyntaxNode.previousNamedSibling
previousNamedSibling(root, p) ==
  IF p = <<>> THEN NoNode
  ELSE LET hits == {i \in 1..Len(NodeAt(root, parent(p)).kids) :
                      i < p[Len(p)] /\ NodeAt(root, parent(p)).kids[i].named}
       IN IF hits = {} THEN NoNode ELSE Append(parent(p), Max(hits))

\* SyntaxNode.parent of a node that may be absent
parentOrNone(p) == IF p = NoNode THEN NoNode ELSE parent(p)

\* Int, a, (Int -> Int) as they stand in a type expression
TypeRefNode(name) ==
  Inner("type_ref",
        <<Inner("upper_case_qid", <<Leaf("upper_case_identifier", TRUE, name)>>)>>)
TypeVariableNode(name) ==
  Inner("type_variable", <<Leaf("lower_case_identifier", TRUE, name)>>)
ArrowNode == Leaf("arrow", TRUE, <<"-", ">">>)

TypeNode(kind) ==
  CASE kind = "ref" -> TypeRefNode(<<"I">>)
    [] kind = "var" -> TypeVariableNode(<<"a">>)
    [] kind = "paren" ->
         Inner("type_expression",
               <<Leaf("(", FALSE, <<"(">>), TypeRefNode(<<"S">>), ArrowNode,
                 TypeRefNode(<<"B">>), Leaf(")", FALSE, <<")">>)>>)

\* t1 -> t2 -> ... -> tn
RECURSIVE ArrowSeparated(_)
ArrowSeparated(kinds) ==
  IF Len(kinds) = 1 THEN <<TypeNode(kinds[1])>>
  ELSE <<TypeNode(kinds[1]), ArrowNode>> \o ArrowSeparated(Tail(kinds))

TypeAnnotationNode(kinds) ==
  Inner("type_annotation",
        <<Leaf("lower_case_identifier", TRUE, <<"f">>), Leaf("colon", TRUE, <<":">>),
          Inner("type_expression", ArrowSeparated(kinds))>>)

LowerPatternNode(name) ==
  Inner("lower_pattern", <<Leaf("lower_case_identifier", TRUE, name)>>)

ValueDeclarationNode(params) ==
  Inner("value_declaration",
        <<Inner("function_declaration_left",
                <<Leaf("lower_case_identifier", TRUE, <<"f">>)>>
                  \o [i \in 1..Len(params) |-> LowerPatternNode(params[i])]),
          Leaf("eq", TRUE, <<"=">>),
          Leaf("number_constant_expr", TRUE, <<"0">>)>>)

\* the tree of a file with one function; no annotation when kinds is empty
ParseFunction(text) ==
  Inner("file",
        (IF text.types = <<>> THEN <<>> ELSE <<TypeAnnotationNode(text.types)>>)
          \o <<ValueDeclarationNode(text.params)>>)

----------------------------------------------------------------------------
(* TreeUtils: the type of a parameter and the return type of a function *)

\* a TypeError was thrown instead of a node or undefined being returned
Fault == <<-2>>

\* findAllNamedChildrenOfType with a list of types: the children of those
\* types, all of them in order; undefined stands as the empty sequence
findAllNamedChildrenOfType(root, types, p) ==
  LET kids == children(root, p)
      hits == {i \in 1..Len(kids) : NodeAt(root, kids[i]).type \in types}
      RECURSIVE pick(_)
      pick(i) == IF i > Len(kids) THEN <<>>
                 ELSE (IF i \in hits THEN <<kids[i]>> ELSE <<>>) \o pick(i + 1)
  IN pick(1)

getTypeOrTypeAliasOfFunctionParameter(root, node) ==
  LET declaration == parentOrNone(parentOrNone(parentOrNone(node)))
      annotation == IF declaration = NoNode THEN NoNode
                    ELSE previousNamedSibling(root, declaration)
  IN IF /\ node # NoNode
        /\ declaration # NoNode
        /\ annotation # NoNode
        /\ NodeAt(root, annotation).type = "type_annotation"
        /\ lastNamedChild(root, annotation) # NoNode
     THEN LET functionParameterNodes ==
                 findAllNamedChildrenOfType(root, {"pattern", "lower_pattern"},
                                            parent(parent(node)))
              matches == {i \in 1..Len(functionParameterNodes) :
                            Text(NodeAt(root, functionParameterNodes[i]))
                              = Text(NodeAt(root, node))}
              matchIndex == IF matches = {} THEN 0 ELSE Min(matches)
              typeAnnotationNodes ==
                 findAllNamedChildrenOfType(root, {"type_ref", "type_expression"},
                                            lastNamedChild(root, annotation))
          IN IF functionParameterNodes # <<>> /\ typeAnnotationNodes # <<>>
                /\ matchIndex \in 1..Len(typeAnnotationNodes)
             THEN typeAnnotationNodes[matchIndex]
             ELSE NoNode
     ELSE NoNode

getReturnTypeOrTypeAliasOfFunctionDefinition(root, node) ==
  IF /\ node # NoNode
     /\ previousNamedSibling(root, node) # NoNode
     /\ NodeAt(root, previousNamedSibling(root, node)).type = "type_annotation"
  THEN LET typeAnnotationNodes ==
              descendantsOfType(root, previousNamedSibling(root, node), "type_ref")
       IN IF typeAnnotationNodes = <<>> THEN Fault
          ELSE LET type == typeAnnotationNodes[Len(typeAnnotationNodes)]
                   inner == firstNamedChild(root, type)
               IN IF inner # NoNode /\ firstNamedChild(root, inner) # NoNode
                  THEN firstNamedChild(root, inner)
                  ELSE type
  ELSE NoNode

----------------------------------------------------------------------------
(* Specification SpecSignature: both functions on a file with one function *)
(* of up to MaxParams parameters, annotated with up to MaxTypes types or   *)
(* not annotated                                                           *)

TypeKinds == {"ref", "var", "paren"}
ParamNames == {<<"x">>, <<"y">>}

SignatureTexts ==
  {[types |-> ts, params |-> ps] :
     ts \in SeqsUpTo(TypeKinds, MaxTypes),
     ps \in {qs \in SeqsUpTo(ParamNames, MaxParams) :
               \A i, j \in 1..Len(qs) : i # j => qs[i] # qs[j]}}

\* the value_declaration of the file
DeclarationOf(root) == <<Len(root.kids)>>

\* the identifier of the k-th parameter of the function
ParamNode(root, k) == DeclarationOf(root) \o <<1, k + 1, 1>>

InitSignature ==
  /\ HandlerIdle
  /\ RegexIdle
  /\ source \in SignatureTexts
  /\ tree = ParseFunction(source)
  /\ query = NoQuery
  /\ result = NoNode

CallGetTypeOrTypeAliasOfFunctionParameter(k) ==
  /\ k <= Len(source.params)
  /\ query' = [op |-> "getTypeOrTypeAliasOfFunctionParameter", k |-> k]
  /\ result' = getTypeOrTypeAliasOfFunctionParameter(tree, ParamNode(tree, k))
  /\ UNCHANGED <<source, tree, handlerVars, lastIndex>>

CallGetReturnTypeOrTypeAliasOfFunctionDefinition ==
  /\ query' = [op |-> "getReturnTypeOrTypeAliasOfFunctionDefinition", k |-> 0]
  /\ result' = getReturnTypeOrTypeAliasOfFunctionDefinition(tree, DeclarationOf(tree))
  /\ UNCHANGED <<source, tree, handlerVars, lastIndex>>

NextSignature ==
  /\ \/ \E k \in 1..MaxParams : CallGetTypeOrTypeAliasOfFunctionParameter(k)
     \/ CallGetReturnTypeOrTypeAliasOfFunctionDefinition
  /\ UNCHANGED calls

SpecSignature == InitSignature /\ [][NextSignature]_vars

\* the node of the k-th type of the annotation (the types and the arrows
\* between them alternate under the type_expression)
AnnotatedType(k) == <<1, 3, 2 * k - 1>>

\* C18: the k-th parameter gets the k-th type of the annotation when the
\* annotation has an argument type at that place, that is k types and a return
\* type after them; otherwise it gets no match, never the return type.
C18_TypeAtSameOrdinal ==
  query.op = "getTypeOrTypeAliasOfFunctionParameter"
  => result = IF query.k < Len(source.types) THEN AnnotatedType(query.k) ELSE NoNode

\* C19: the result is the last type reference of the annotation before the
\* declaration, or the reference nested in it; without an annotation, or with
\* an annotation that holds no type reference, it is absence and never a fault.
C19_LastTypeReferenceOrAbsent ==
  query.op = "getReturnTypeOrTypeAliasOfFunctionDefinition"
  => LET refs == IF source.types = <<>> THEN <<>>
                 ELSE descendantsOfType(tree, <<1>>, "type_ref")
     IN IF refs = <<>> THEN result = NoNode
        ELSE result \in {refs[Len(refs)], refs[Len(refs)] \o <<1, 1>>}

----------------------------------------------------------------------------
(* TreeUtils.getTypeAliasOfRecordField and its retries on the ancestors.   *)
(* What the type checker's findDefinition answers is not computed here: an *)
(* oracle says at which nodes the record resolves and at which nodes the   *)
(* field is then found in it.                                              *)

Resolution(node) == [node |-> node, uri |-> 1]
NoResolution == [node |-> NoNode, uri |-> NoUri]

\* node?.parent?.parent
grandparent(p) == parentOrNone(parentOrNone(p))

\* getTypeAliasOfRecord: needs node.parent.parent, then rests on findDefinition;
\* it does not call getTypeAliasOfRecordField
getTypeAliasOfRecord(node, oracle) ==
  IF node # NoNode /\ grandparent(node) # NoNode /\ node \in oracle.records
  THEN Resolution(node)
  ELSE NoResolution

\* the result of getTypeAliasOfRecordField and the number of times the function
\* was entered to compute it
RECURSIVE getTypeAliasOfRecordField(_, _)
RECURSIVE retryOnAncestors(_, _, _)

\* while (!recordType && node?.parent?.parent)
retryOnAncestors(node, recordType, oracle) ==
  IF recordType = NoResolution /\ grandparent(node) # NoNode
  THEN LET again == getTypeAliasOfRecordField(grandparent(node), oracle)
           rest == retryOnAncestors(grandparent(node), again.value, oracle)
       IN [recordType |-> rest.recordType, entries |-> again.entries + rest.entries]
  ELSE [recordType |-> recordType, entries |-> 0]

getTypeAliasOfRecordField(node, oracle) ==
  LET loop == retryOnAncestors(node, getTypeAliasOfRecord(node, oracle), oracle)
  IN [value |-> IF loop.recordType # NoResolution /\ node \in oracle.fields
                THEN Resolution(node)
                ELSE NoResolution,
      entries |-> 1 + loop.entries]

----------------------------------------------------------------------------
(* Specification SpecRecordField: getTypeAliasOfRecordField on a node at   *)
(* depth 0..MaxDepth, for every answer of the oracle on the nodes the      *)
(* function can reach                                                      *)

\* the node at depth d below the root, and a tree that has it
NodeAtDepth(d) == [i \in 1..d |-> 1]

RECURSIVE ChainTree(_)
ChainTree(d) ==
  IF d = 0 THEN Leaf("lower_case_identifier", TRUE, <<"x">>)
  ELSE Inner("field_access_expr", <<ChainTree(d - 1)>>)

\* the nodes reached from the node at depth d by node.parent.parent
Reached(d) == {NodeAtDepth(d - 2 * k) : k \in 0..(d \div 2)}

InitRecordField ==
  /\ HandlerIdle
  /\ RegexIdle
  /\ \E d \in 0..MaxDepth :
       /\ tree = ChainTree(d)
       /\ \E records \in SUBSET Reached(d), fields \in SUBSET Reached(d) :
            source = [node |-> NodeAtDepth(d), records |-> records, fields |-> fields]
  /\ query = NoQuery
  /\ result = [value |-> NoResolution, entries |-> 0]

CallGetTypeAliasOfRecordField ==
  /\ query' = [op |-> "getTypeAliasOfRecordField", node |-> source.node]
  /\ result' = getTypeAliasOfRecordField(source.node, source)
  /\ UNCHANGED <<source, tree, handlerVars, lastIndex>>

NextRecordField == CallGetTypeAliasOfRecordField /\ UNCHANGED calls

SpecRecordField == InitRecordField /\ [][NextRecordField]_vars

\* C20: the call returns; the retries and nested re-entries it made, that is the
\* entries into the function after the first, are no more than the depth of the
\* starting node; and when the record resolves at no node on the way up the
\* result is absence.
C20_RetriesBoundedByDepth ==
  query.op = "getTypeAliasOfRecordField"
  => /\ result.entries - 1 <= Len(query.node)
     /\ source.records = {} => result.value = NoResolution

----------------------------------------------------------------------------
(* Value declarations: the trees tree-sitter-elm makes of  f = 0 ,         *)
(* (f, g) = 0  and  f = let <declaration> in 0                             *)

\* a declaration as the text gives it: a function named names[1], or a tuple
\* pattern binding names; inner holds the declaration of its let, if any
Declared(kind, names, inner) == [kind |-> kind, names |-> names, inner |-> inner]

NumberNode == Leaf("number_constant_expr", TRUE, <<"0">>)

FunctionDeclarationLeftNode(name) ==
  Inner("function_declaration_left", <<Leaf("lower_case_identifier", TRUE, name)>>)

TuplePatternNode(names) ==
  Inner("pattern",
        <<Inner("tuple_pattern",
                [k \in 1..Len(names) |-> Inner("pattern", <<LowerPatternNode(names[k])>>)])>>)

LeftSideNode(decl) ==
  IF decl.kind = "fn" THEN FunctionDeclarationLeftNode(decl.names[1])
  ELSE TuplePatternNode(decl.names)

\* a declaration without a let
PlainDeclarationNode(decl) ==
  Inner("value_declaration",
        <<LeftSideNode(decl), Leaf("eq", TRUE, <<"=">>), NumberNode>>)

DeclarationNode(decl) ==
  Inner("value_declaration",
        <<LeftSideNode(decl), Leaf("eq", TRUE, <<"=">>),
          IF decl.inner = <<>> THEN NumberNode
          ELSE Inner("let_in_expr", <<PlainDeclarationNode(decl.inner[1]), NumberNode>>)>>)

\* the tree of a file that holds these declarations
ParseDeclarations(text) ==
  Inner("file", [i \in 1..Len(text) |-> DeclarationNode(text[i])])

----------------------------------------------------------------------------
(* TreeUtils.findFunction *)

\* the value declarations findFunction searches
searchedFunctions(root, syntaxNode, onlySearchTopLevel) ==
  IF onlySearchTopLevel
  THEN findAllNamedChildrenOfType(root, {"value_declaration"}, syntaxNode)
  ELSE descendantsOfType(root, syntaxNode, "value_declaration")

\* the left-hand side of elmFunction when its first name is functionName
directMatch(root, elmFunction, functionName) ==
  LET declaration ==
        findFirstNamedChildOfType(root, "function_declaration_left", elmFunction)
  IN IF /\ declaration # NoNode
        /\ firstNamedChild(root, declaration) # NoNode
        /\ Text(NodeAt(root, firstNamedChild(root, declaration))) = functionName
     THEN declaration
     ELSE NoNode

\* the first lower_pattern of elmFunction's pattern that binds functionName
patternMatch(root, elmFunction, functionName) ==
  LET pattern == findFirstNamedChildOfType(root, "pattern", elmFunction)
      bindings == IF pattern = NoNode THEN <<>>
                  ELSE descendantsOfType(root, pattern, "lower_pattern")
      hits == {k \in 1..Len(bindings) : Text(NodeAt(root, bindings[k])) = functionName}
  IN IF hits = {} THEN NoNode ELSE bindings[Min(hits)]

\* the search that takes, declaration by declaration, whichever of the two
\* matches it finds
findFunctionInOneScan(root, syntaxNode, functionName, onlySearchTopLevel) ==
  LET functions == searchedFunctions(root, syntaxNode, onlySearchTopLevel)
      hits == {i \in 1..Len(functions) :
                 \/ directMatch(root, functions[i], functionName) # NoNode
                 \/ patternMatch(root, functions[i], functionName) # NoNode}
  IN IF hits = {} THEN NoNode
     ELSE IF directMatch(root, functions[Min(hits)], functionName) # NoNode
          THEN directMatch(root, functions[Min(hits)], functionName)
          ELSE patternMatch(root, functions[Min(hits)], functionName)

findFunction(root, syntaxNode, functionName, onlySearchTopLevel) ==
  LET functions == searchedFunctions(root, syntaxNode, onlySearchTopLevel)
      direct == {i \in 1..Len(functions) :
                   directMatch(root, functions[i], functionName) # NoNode}
      bound == {i \in 1..Len(functions) :
                  patternMatch(root, functions[i], functionName) # NoNode}
  IN IF direct # {} THEN directMatch(root, functions[Min(direct)], functionName)
     ELSE IF bound # {} THEN patternMatch(root, functions[Min(bound)], functionName)
     ELSE NoNode

----------------------------------------------------------------------------
(* Specification SpecFindFunction: findFunction on the root of a file of   *)
(* up to MaxDecls declarations over the names f and g, each a function     *)
(* (with or without a declaration in a let) or a tuple pattern             *)

DeclaredNames == {<<"f">>, <<"g">>}
SearchedNames == DeclaredNames \cup {<<"h">>}

BoundNames ==
  {ns \in SeqsUpTo(DeclaredNames, 2) :
     ns # <<>> /\ \A i, j \in 1..Len(ns) : i # j => ns[i] # ns[j]}

PlainDeclarations ==
  {Declared("fn", <<n>>, <<>>) : n \in DeclaredNames}
    \cup {Declared("pat", ns, <<>>) : ns \in BoundNames}

Declarations ==
  PlainDeclarations
    \cup {Declared("fn", <<n>>, <<d>>) : n \in DeclaredNames, d \in PlainDeclarations}

DeclarationTexts == SeqsUpTo(Declarations, MaxDecls)

InitFindFunction ==
  /\ HandlerIdle
  /\ RegexIdle
  /\ source \in DeclarationTexts
  /\ tree = ParseDeclarations(source)
  /\ query = NoQuery
  /\ result = NoNode

CallFindFunction(functionName, onlySearchTopLevel) ==
  /\ query' = [op |-> "findFunction", functionName |-> functionName,
               onlySearchTopLevel |-> onlySearchTopLevel]
  /\ result' = findFunction(tree, <<>>, functionName, onlySearchTopLevel)
  /\ UNCHANGED <<source, tree, handlerVars, lastIndex>>

NextFindFunction ==
  /\ \E functionName \in SearchedNames, onlySearchTopLevel \in BOOLEAN :
       CallFindFunction(functionName, onlySearchTopLevel)
  /\ UNCHANGED calls

SpecFindFunction == InitFindFunction /\ [][NextFindFunction]_vars

\* a declaration of the text and the place of its node in the tree
Placed(decl, path) == [decl |-> decl, path |-> path]

\* the declarations of the text in declaration order, those in a let right
\* after the declaration that holds the let; only the top level if topLevel
RECURSIVE PlacedFrom(_, _, _)
PlacedFrom(text, i, topLevel) ==
  IF i > Len(text) THEN <<>>
  ELSE <<Placed(text[i], <<i>>)>>
         \o (IF topLevel \/ text[i].inner = <<>> THEN <<>>
             ELSE <<Placed(text[i].inner[1], <<i, 3, 1>>)>>)
         \o PlacedFrom(text, i + 1, topLevel)

Binds(decl, name) == \E k \in 1..Len(decl.names) : decl.names[k] = name

\* the place of the lower_pattern that first binds name in a tuple pattern
FirstBinding(placed, name) ==
  placed.path \o <<1, 1, Min({k \in 1..Len(placed.decl.names) : placed.decl.names[k] = name}), 1>>

\* C21: the result is the left-hand side of the first searched function named
\* functionName, whatever patterns stand before it; if there is none, the first
\* binding of functionName in the first searched pattern that binds it; if there
\* is none either, no node.  Searched are the top-level declarations, and with
\* them those inside lets when onlySearchTopLevel is off.
C21_DirectMatchBeforePattern ==
  query.op = "findFunction"
  => LET placed == PlacedFrom(source, 1, query.onlySearchTopLevel)
         direct == {i \in 1..Len(placed) :
                      placed[i].decl.kind = "fn" /\ Binds(placed[i].decl, query.functionName)}
         bound == {i \in 1..Len(placed) :
                     placed[i].decl.kind = "pat" /\ Binds(placed[i].decl, query.functionName)}
     IN result = IF direct # {} THEN placed[Min(direct)].path \o <<1>>
                 ELSE IF bound # {} THEN FirstBinding(placed[Min(bound)], query.functionName)
                 ELSE NoNode

\* C21 witness: the first declaration binds the name in a tuple pattern, the
\* second one is a function of that name, and the function's left-hand side is
\* the result
C21_Witness ==
  /\ query.op = "findFunction"
  /\ Len(source) = 2
  /\ source[1].kind = "pat" /\ Binds(source[1], query.functionName)
  /\ source[2].kind = "fn" /\ Binds(source[2], query.functionName)
  /\ result = <<2, 1>>

----------------------------------------------------------------------------
(* Top-level declarations and their type annotations *)

\* a top-level item of a file, by its kind
ItemNode(kind) ==
  CASE kind = "type_annotation" -> TypeAnnotationNode(<<"ref">>)
    [] kind = "value_declaration" -> ValueDeclarationNode(<<>>)
    [] kind = "line_comment" -> Leaf("line_comment", TRUE, <<"-", "-">>)
    [] kind = "comment_block" -> Leaf("comment_block", TRUE, <<"{", "-", "-", "}">>)

\* the tree of a file that holds these items
ParseItems(text) == Inner("file", [i \in 1..Len(text) |-> ItemNode(text[i])])

\* the type of a node that may be absent (candidate?.type)
typeOrNone(root, p) == IF p = NoNode THEN "undefined" ELSE NodeAt(root, p).type

\* the children of the root that pass the filter; undefined stands as the
\* empty sequence
findAllTopLevelFunctionDeclarationsWithoutTypeAnnotation(root) ==
  LET kids == children(root, <<>>)
      RECURSIVE filter(_)
      filter(i) ==
        IF i > Len(kids) THEN <<>>
        ELSE (IF /\ NodeAt(root, kids[i]).type = "value_declaration"
                 /\ typeOrNone(root, previousNamedSibling(root, kids[i])) # "type_annotation"
              THEN <<kids[i]>> ELSE <<>>) \o filter(i + 1)
  IN filter(1)

\* getTypeAnnotation, the while loop: skip comments
RECURSIVE skipComments(_, _)
skipComments(root, candidate) ==
  IF typeOrNone(root, candidate) \in {"line_comment", "comment_block"}
  THEN skipComments(root, previousNamedSibling(root, candidate))
  ELSE candidate

getTypeAnnotation(root, valueDeclaration) ==
  IF typeOrNone(root, valueDeclaration) # "value_declaration" THEN NoNode
  ELSE LET candidate == skipComments(root, previousNamedSibling(root, valueDeclaration))
       IN IF typeOrNone(root, candidate) = "type_annotation" THEN candidate ELSE NoNode

----------------------------------------------------------------------------
(* Specification SpecAnnotations: both lookups on every file of up to      *)
(* MaxItems top-level items                                                *)

ItemKinds == {"type_annotation", "value_declaration", "line_comment", "comment_block"}

InitAnnotations ==
  /\ HandlerIdle
  /\ RegexIdle
  /\ source \in SeqsUpTo(ItemKinds, MaxItems)
  /\ tree = ParseItems(source)
  /\ query = NoQuery
  /\ result = <<>>

CallFindAllTopLevelFunctionDeclarationsWithoutTypeAnnotation ==
  /\ query' = [op |-> "findAllTopLevelFunctionDeclarationsWithoutTypeAnnotation",
               node |-> <<>>]
  /\ result' = findAllTopLevelFunctionDeclarationsWithoutTypeAnnotation(tree)
  /\ UNCHANGED <<source, tree, handlerVars, lastIndex>>

CallGetTypeAnnotation(i) ==
  /\ i <= Len(source)
  /\ query' = [op |-> "getTypeAnnotation", node |-> <<i>>]
  /\ result' = getTypeAnnotation(tree, <<i>>)
  /\ UNCHANGED <<source, tree, handlerVars, lastIndex>>

NextAnnotations ==
  /\ \/ CallFindAllTopLevelFunctionDeclarationsWithoutTypeAnnotation
     \/ \E i \in 1..MaxItems : CallGetTypeAnnotation(i)
  /\ UNCHANGED calls

SpecAnnotations == InitAnnotations /\ [][NextAnnotations]_vars

\* the top-level value declarations of the file
TopLevelDeclarations == {<<i>> : i \in {j \in 1..Len(source) : source[j] = "value_declaration"}}

\* C22: a top-level value declaration is in the list of declarations without a
\* type annotation exactly when getTypeAnnotation finds no annotation for it,
\* also with comments between the annotation and the declaration.
C22_LookupsAgree ==
  /\ query.op = "findAllTopLevelFunctionDeclarationsWithoutTypeAnnotation"
       => \A d \in TopLevelDeclarations :
            d \in Range(result) <=> getTypeAnnotation(tree, d) = NoNode
  /\ (query.op = "getTypeAnnotation" /\ query.node \in TopLevelDeclarations)
       => (result = NoNode
             <=> query.node \in Range(findAllTopLevelFunctionDeclarationsWithoutTypeAnnotation(tree)))

====
